---- MODULE Spec2Model ----
(***************************************************************************)
(* A model of webapp/graphite/readers.py: MultiReader (fan-out fetch,      *)
(* deferred merge_results, pairwise merge), CeresReader.fetch and          *)
(* WhisperReader.fetch (archive data fused with the CarbonLink cache) and  *)
(* merge_with_cache with its nested consolidate.                           *)
(*                                                                         *)
(* The source is Python 2: "/" on two ints is floor division, "%" with a   *)
(* positive divisor is non-negative, and a negative list index counts from *)
(* the end of the list (IndexError only when it runs past the front).      *)
(*                                                                         *)
(* Values.  A sample is None or a number.  None is the empty tuple and a   *)
(* number is the pair <<n, d>> (the rational n/d in lowest terms, d > 0),  *)
(* so that float(sum)/len of 'average' is computed and not truncated.      *)
(* A fetch result is a record: [kind |-> "data", time_info, values],       *)
(* [kind |-> "None"], or, for a call that raised, [kind |-> "raise", exc]. *)
(***************************************************************************)
EXTENDS Integers, Sequences, FiniteSets, TLC

VARIABLES
  \* MultiReader.fetch / merge_results
  pc, nodes, fetches, returned, widx, results, outcome, events, mergeCalls,
  \* MultiReader.merge applied to a list of results (reduce)
  inputs, k, acc,
  \* merge_with_cache and consolidate called on their own
  mwc_args, mwc_ret, cons_args, cons_ret,
  \* CeresReader.fetch / WhisperReader.fetch
  reader_args, reader_ret

multiVars ==
  <<pc, nodes, fetches, returned, widx, results, outcome, events, mergeCalls>>
mergeVars == <<inputs, k, acc>>
cacheVars == <<mwc_args, mwc_ret>>
consVars == <<cons_args, cons_ret>>
readerVars == <<reader_args, reader_ret>>
vars == <<multiVars, mergeVars, cacheVars, consVars, readerVars>>

\* The value of the variables a specification does not use.
Unused == <<>>

----------------------------------------------------------------------------
(* Bounds of the model *)

\* Largest timestamp of a series window in the merge specifications.
MaxT == 4
\* Largest number of results folded by reduce(self.merge, results).
MaxFold == 3
\* Largest number of nodes of a MultiReader.
MaxNodes == 3
\* Largest number of cached datapoints handed to merge_with_cache.
MaxPoints == 3
\* Largest number of values handed to consolidate.
MaxVals == 3
\* Largest length of an archive series in the cache specifications.
MaxLen == 2
\* Largest number of cached datapoints a CarbonLink query returns to a reader.
MaxQueryPoints == 2

----------------------------------------------------------------------------
(* Python values *)

None == <<>>
Num(n) == <<n, 1>>
IsNone(v) == v = None

NoneResult == [kind |-> "None"]
Raised(e) == [kind |-> "raise", exc |-> e]
Data(ti, vs) == [kind |-> "data", time_info |-> ti, values |-> vs]

Min2(a, b) == IF a <= b THEN a ELSE b
Max2(a, b) == IF a >= b THEN a ELSE b

\* Python 2 "a / b" on ints with b > 0: floor division.
FloorDiv(a, b) == a \div b

\* seq[i] with a zero-based Python index: a negative index counts from the end,
\* an index outside -len..len-1 raises IndexError (ok = FALSE).
GetItem(seq, i) ==
  IF i >= 0 /\ i < Len(seq) THEN [ok |-> TRUE, v |-> seq[i + 1]]
  ELSE IF i < 0 /\ -i <= Len(seq) THEN [ok |-> TRUE, v |-> seq[Len(seq) + i + 1]]
  ELSE [ok |-> FALSE, v |-> None]

----------------------------------------------------------------------------
(* MultiReader.merge *)

\* "if len(values) > i: v = values[i] else: v = None"
Lookup(values, i) ==
  IF Len(values) > i THEN GetItem(values, i) ELSE [ok |-> TRUE, v |-> None]

\* One iteration of the while loop: the value appended for timestamp t, or
\* ok = FALSE when an index expression raises.
MergeSlot(t, ti1, values1, ti2, values2) ==
  LET i1 == FloorDiv(t - ti1[1], ti1[3])
      r1 == Lookup(values1, i1)
      i2 == FloorDiv(t - ti2[1], ti2[3])
  IN  IF ~r1.ok THEN r1
      ELSE IF IsNone(r1.v) THEN Lookup(values2, i2)
      ELSE r1

\* The number of iterations of "t = start; while t < end: ...; t += step".
SlotCount(start, end, step) ==
  IF end <= start THEN 0 ELSE FloorDiv(end - start + step - 1, step)

\* merge after "Ensure results1 is finer than results2".
MergeOrdered(results1, results2) ==
  LET ti1 == results1.time_info
      ti2 == results2.time_info
      step == ti1[3]
      start == Min2(ti1[1], ti2[1])
      end == Max2(ti1[2], ti2[2])
      n == SlotCount(start, end, step)
      slot == [j \in 1..n |->
                 MergeSlot(start + (j - 1) * step, ti1, results1.values,
                           ti2, results2.values)]
  IN  IF \E j \in 1..n : ~slot[j].ok
      THEN Raised("IndexError")
      ELSE Data(<<start, end, step>>, [j \in 1..n |-> slot[j].v])

\* MultiReader.merge(results1, results2).  Subscripting None (results1[0])
\* raises TypeError.
Merge(results1, results2) ==
  IF results1.kind # "data" \/ results2.kind # "data" THEN Raised("TypeError")
  ELSE IF results1.time_info[3] > results2.time_info[3]
       THEN MergeOrdered(results2, results1)
       ELSE MergeOrdered(results1, results2)

\* reduce(self.merge, results) from the i-th element on, with the accumulator a;
\* an exception raised by merge ends the fold.  calls counts the merges applied.
RECURSIVE ReduceFrom(_, _, _, _)
ReduceFrom(rs, i, a, calls) ==
  IF i > Len(rs) THEN [value |-> a, calls |-> calls]
  ELSE LET m == Merge(a, rs[i])
       IN  IF m.kind = "raise" THEN [value |-> m, calls |-> calls + 1]
           ELSE ReduceFrom(rs, i + 1, m, calls + 1)

\* reduce(self.merge, results) of a non-empty list.
Reduce(rs) == ReduceFrom(rs, 2, rs[1], 0)

----------------------------------------------------------------------------
(* reduce(self.merge, results) on results drawn from bounded sets *)

\* The steps of the series: three pairwise different resolutions.
Steps == {1, 2, 4}

\* Series windows (start, end, step) with 0 <= start < end <= MaxT, start and
\* end multiples of step (as the archive libraries return them).
Windows ==
  {w \in (0..MaxT) \X (0..MaxT) \X Steps :
     w[1] < w[2] /\ w[1] % w[3] = 0 /\ w[2] % w[3] = 0}

\* A window with, per slot, whether the slot holds a value; a series has
\* ceil((end - start) / step) slots.
Shapes ==
  UNION {{[time_info |-> w, mask |-> m] :
            m \in [1..SlotCount(w[1], w[2], w[3]) -> BOOLEAN]} : w \in Windows}

\* The shapes whose window starts at 0.
ShapesFromZero == {sh \in Shapes : sh.time_info[1] = 0}

\* The result of node n with this shape: each present slot holds a number that
\* names the node and the slot, so that no two sources agree by accident.
Tag(sh, n) ==
  Data(sh.time_info,
       [i \in 1..Len(sh.mask) |-> IF sh.mask[i] THEN Num(10 * n + i) ELSE None])

TagAll(shs) == [n \in 1..Len(shs) |-> Tag(shs[n], n)]

ShapeLists(S, lo, hi) == UNION {[1..n -> S] : n \in lo..hi}

Pending == [kind |-> "pending"]

OthersUnusedByMerge ==
  /\ pc = Unused /\ nodes = Unused /\ fetches = Unused /\ widx = Unused
  /\ returned = Unused
  /\ results = Unused /\ outcome = Unused /\ events = Unused
  /\ mergeCalls = Unused
  /\ mwc_args = Unused /\ mwc_ret = Unused
  /\ cons_args = Unused /\ cons_ret = Unused
  /\ reader_args = Unused /\ reader_ret = Unused

\* Two results with any windows.
InitMerge ==
  /\ inputs \in {TagAll(shs) : shs \in ShapeLists(Shapes, 2, 2)}
  /\ k = 1
  /\ acc = inputs[1]
  /\ OthersUnusedByMerge

\* Two to MaxFold results whose windows all start at 0 and whose steps are
\* pairwise different.
InitFold ==
  /\ inputs \in {TagAll(shs) : shs \in
                   {l \in ShapeLists(ShapesFromZero, 2, MaxFold) :
                      \A i, j \in 1..Len(l) :
                        i # j => l[i].time_info[3] # l[j].time_info[3]}}
  /\ k = 1
  /\ acc = inputs[1]
  /\ OthersUnusedByMerge

\* One step of reduce: acc = self.merge(acc, next result).
MergeStep ==
  /\ k < Len(inputs)
  /\ acc.kind = "data"
  /\ acc' = Merge(acc, inputs[k + 1])
  /\ k' = k + 1
  /\ UNCHANGED <<inputs, multiVars, cacheVars, consVars, readerVars>>

NextMerge == MergeStep

SpecMerge == InitMerge /\ [][NextMerge]_vars

SpecFold == InitFold /\ [][NextMerge]_vars

----------------------------------------------------------------------------
(* MultiReader.fetch and the merge_results closure it returns *)

\* The results a node can produce in this specification.
SubResults ==
  { Data(<<0, 2, 1>>, <<Num(1), None>>),
    Data(<<0, 4, 2>>, <<Num(5), Num(6)>>),
    Data(<<2, 3, 1>>, <<Num(7)>>) }

FetchInProgress == [kind |-> "FetchInProgress"]
AllFailed == Raised("All sub-fetches failed")

\* What n.fetch(startTime, endTime) can return: data, None or a handle.
NodeFetchReturns == SubResults \cup {NoneResult, FetchInProgress}

\* What a sub-fetch handle's waitForResults() can do: return data or None, or
\* raise.
WaitOutcomes == SubResults \cup {NoneResult, Raised("SubfetchError")}

OthersUnusedByMulti ==
  /\ inputs = Unused /\ k = Unused /\ acc = Unused
  /\ mwc_args = Unused /\ mwc_ret = Unused
  /\ cons_args = Unused /\ cons_ret = Unused
  /\ reader_args = Unused /\ reader_ret = Unused

\* A MultiReader over 0..MaxNodes nodes whose fetch has just been called.
Init ==
  /\ nodes \in 0..MaxNodes
  /\ pc = "fetch"
  /\ fetches = <<>>
  /\ returned = Pending
  /\ widx = 1
  /\ results = <<>>
  /\ outcome = Pending
  /\ events = <<>>
  /\ mergeCalls = 0
  /\ OthersUnusedByMulti

\* results[i] = r on the dict results.
DictSet(d, i, r) ==
  [j \in DOMAIN d \cup {i} |-> IF j = i THEN r ELSE d[j]]

\* d.values(): CPython 2 iterates a dict of small non-negative int keys in
\* ascending key order.
RECURSIVE DictValuesFrom(_, _, _)
DictValuesFrom(d, i, hi) ==
  IF i > hi THEN <<>>
  ELSE (IF i \in DOMAIN d THEN <<d[i]>> ELSE <<>>) \o DictValuesFrom(d, i + 1, hi)

DictValues(d) ==
  IF DOMAIN d = {} THEN <<>>
  ELSE DictValuesFrom(d, 1, CHOOSE m \in DOMAIN d : \A j \in DOMAIN d : j <= m)

\* A plausible bug: the filter keeps the None results.
KeepNone(rs) == rs

\* "[r for r in results.values() if r is not None]"
NotNone(rs) == SelectSeq(rs, LAMBDA r : r.kind # "None")

\* A plausible bug: a handle is awaited as soon as it has been dispatched.
WaitWhileDispatching == pc \in {"fetch", "merge_results"}

\* The sub-fetch handles are awaited inside merge_results, which runs only
\* once the caller has invoked waitForResults on the handle that
\* MultiReader.fetch returned.
MergeResultsRunning == pc = "merge_results"

\* One element of the list comprehension: n.fetch(startTime, endTime) returns.
FetchNode ==
  /\ pc = "fetch"
  /\ Len(fetches) < nodes
  /\ \E ret \in NodeFetchReturns :
       /\ fetches' = Append(fetches, ret)
       /\ events' = Append(events, [op |-> "fetch", node |-> Len(fetches) + 1,
                                    ret |-> ret])
  /\ UNCHANGED <<pc, nodes, returned, widx, results, outcome, mergeCalls>>
  /\ UNCHANGED <<mergeVars, cacheVars, consVars, readerVars>>

\* n.fetch raises: nothing catches it, MultiReader.fetch raises.
FetchNodeRaises ==
  /\ pc = "fetch"
  /\ Len(fetches) < nodes
  /\ events' = Append(events, [op |-> "fetch", node |-> Len(fetches) + 1,
                               ret |-> Raised("FetchError")])
  /\ returned' = Raised("FetchError")
  /\ pc' = "raised"
  /\ UNCHANGED <<nodes, fetches, widx, results, outcome, mergeCalls>>
  /\ UNCHANGED <<mergeVars, cacheVars, consVars, readerVars>>

\* "return FetchInProgress(merge_results)"
FetchReturn ==
  /\ pc = "fetch"
  /\ Len(fetches) = nodes
  /\ returned' = FetchInProgress
  /\ pc' = "returned"
  /\ UNCHANGED <<nodes, fetches, widx, results, outcome, events, mergeCalls>>
  /\ UNCHANGED <<mergeVars, cacheVars, consVars, readerVars>>

\* The caller invokes waitForResults on the returned handle: wait_callback,
\* that is merge_results, starts with an empty results dict.
WaitForResults ==
  /\ pc = "returned"
  /\ pc' = "merge_results"
  /\ widx' = 1
  /\ results' = <<>>
  /\ events' = Append(events, [op |-> "waitForResults", node |-> 0,
                               ret |-> Pending])
  /\ UNCHANGED <<nodes, fetches, returned, outcome, mergeCalls>>
  /\ UNCHANGED <<mergeVars, cacheVars, consVars, readerVars>>

\* The loop body for a fetch that is a FetchInProgress: its waitForResults
\* returns or raises; a raise is logged and None recorded.
WaitSub ==
  /\ MergeResultsRunning
  /\ widx <= Len(fetches)
  /\ fetches[widx].kind = "FetchInProgress"
  /\ \E w \in WaitOutcomes :
       /\ results' = DictSet(results, widx,
                             IF w.kind = "raise" THEN NoneResult ELSE w)
       /\ events' = Append(events, [op |-> "wait", node |-> widx, ret |-> w])
  /\ widx' = widx + 1
  /\ UNCHANGED <<pc, nodes, fetches, returned, outcome, mergeCalls>>
  /\ UNCHANGED <<mergeVars, cacheVars, consVars, readerVars>>

\* The loop body for a fetch that is not a FetchInProgress: nothing is
\* recorded for it.
SkipDirect ==
  /\ pc = "merge_results"
  /\ widx <= Len(fetches)
  /\ fetches[widx].kind # "FetchInProgress"
  /\ widx' = widx + 1
  /\ UNCHANGED <<pc, nodes, fetches, returned, results, outcome, events,
                 mergeCalls>>
  /\ UNCHANGED <<mergeVars, cacheVars, consVars, readerVars>>

\* After the loop: drop the None results, raise when nothing is left, else
\* reduce with merge.
MergeResults ==
  /\ pc = "merge_results"
  /\ widx > Len(fetches)
  /\ LET rs == NotNone(DictValues(results))
     IN  IF rs = <<>>
         THEN /\ outcome' = AllFailed
              /\ mergeCalls' = 0
         ELSE /\ outcome' = Reduce(rs).value
              /\ mergeCalls' = Reduce(rs).calls
  /\ pc' = "done"
  /\ UNCHANGED <<nodes, fetches, returned, widx, results, events>>
  /\ UNCHANGED <<mergeVars, cacheVars, consVars, readerVars>>

Next ==
  \/ FetchNode
  \/ FetchNodeRaises
  \/ FetchReturn
  \/ WaitForResults
  \/ WaitSub
  \/ SkipDirect
  \/ MergeResults

Spec == Init /\ [][Next]_vars

----------------------------------------------------------------------------
(* Numbers: sum, float division, max and min on <<n, d>> *)

RECURSIVE Gcd(_, _)
Gcd(a, b) == IF b = 0 THEN a ELSE Gcd(b, a % b)

Abs(a) == IF a < 0 THEN -a ELSE a

\* n/d in lowest terms, d > 0.
Norm(n, d) ==
  LET g == Gcd(Abs(n), d) IN <<n \div g, d \div g>>

Add(a, b) == Norm(a[1] * b[2] + b[1] * a[2], a[2] * b[2])
Less(a, b) == a[1] * b[2] < b[1] * a[2]

\* sum(usable): 0 + usable[0] + usable[1] + ...
RECURSIVE SumFrom(_, _)
SumFrom(usable, i) ==
  IF i = 0 THEN Num(0) ELSE Add(SumFrom(usable, i - 1), usable[i])

Sum(usable) == SumFrom(usable, Len(usable))

\* max(usable) and min(usable) of a non-empty list: the first of equal items.
RECURSIVE MaxFrom(_, _)
MaxFrom(usable, i) ==
  IF i = 1 THEN usable[1]
  ELSE LET m == MaxFrom(usable, i - 1)
       IN  IF Less(m, usable[i]) THEN usable[i] ELSE m

RECURSIVE MinFrom(_, _)
MinFrom(usable, i) ==
  IF i = 1 THEN usable[1]
  ELSE LET m == MinFrom(usable, i - 1)
       IN  IF Less(usable[i], m) THEN usable[i] ELSE m

----------------------------------------------------------------------------
(* merge_with_cache and its nested consolidate *)

Ok(v) == [kind |-> "ok", v |-> v]
InvalidFunction == Raised("Invalid consolidation function")

\* The names consolidate recognizes.
Recognized == {"sum", "average", "max", "min"}

\* consolidate(func, values)
Consolidate(func, values) ==
  LET usable == SelectSeq(values, LAMBDA v : ~IsNone(v))
  IN  IF usable = <<>> THEN Ok(None)
      ELSE IF func = "sum" THEN Ok(Sum(usable))
      ELSE IF func = "average"
        THEN Ok(Norm(Sum(usable)[1], Sum(usable)[2] * Len(usable)))
      ELSE IF func = "max" THEN Ok(MaxFrom(usable, Len(usable)))
      ELSE IF func = "min" THEN Ok(MinFrom(usable, Len(usable)))
      ELSE InvalidFunction

\* func = None is the string "None"; "if func:" is false for None and "".
Truthy(func) == func \notin {"None", ""}

\* A plausible bug: the cached points are not bucketed, each keeps its own
\* timestamp as its interval.
IntervalUnbucketed(timestamp, step) == timestamp

\* "interval = timestamp - (timestamp % step)"
Interval(timestamp, step) == timestamp - (timestamp % step)

\* consolidated_dict[interval]: the values of the points of that interval, in
\* iteration order.
GroupOf(cached_datapoints, interval, step) ==
  LET sel == SelectSeq(cached_datapoints,
                       LAMBDA p : Interval(p[1], step) = interval)
  IN  [j \in 1..Len(sel) |-> sel[j][2]]

\* The keys of consolidated_dict as a list.  No two keys map to the same slot
\* of the series, so the order in which the dict yields them does not show in
\* the result; they are taken in ascending order.
RECURSIVE SortedKeys(_)
SortedKeys(S) ==
  IF S = {} THEN <<>>
  ELSE LET m == CHOOSE x \in S : \A y \in S : x <= y
       IN  <<m>> \o SortedKeys(S \ {m})

\* A plausible bug: no "if i < 0: continue", so that a negative index writes
\* from the end of the list.
ApplyPointNoGuard(values, interval, value, start, step) ==
  LET i == FloorDiv(interval - start, step)
  IN  IF i >= 0 /\ i < Len(values) THEN [values EXCEPT ![i + 1] = value]
      ELSE IF i < 0 /\ -i <= Len(values)
        THEN [values EXCEPT ![Len(values) + i + 1] = value]
      ELSE values

\* The body of the last loop: i = int(interval - start) / step; a negative i
\* is skipped, values[i] = value, and the IndexError of an i past the end is
\* swallowed by the bare except.
ApplyPoint(values, interval, value, start, step) ==
  LET i == FloorDiv(interval - start, step)
  IN  IF i < 0 THEN values
      ELSE IF i < Len(values) THEN [values EXCEPT ![i + 1] = value]
      ELSE values

RECURSIVE ApplyAll(_, _, _, _, _)
ApplyAll(values, consolidated, n, start, step) ==
  IF n = 0 THEN values
  ELSE ApplyPoint(ApplyAll(values, consolidated, n - 1, start, step),
                  consolidated[n][1], consolidated[n][2], start, step)

\* merge_with_cache(cached_datapoints, start, step, values, func)
MergeWithCache(cached_datapoints, start, step, values, func) ==
  IF Truthy(func)
  THEN LET keys == SortedKeys({Interval(cached_datapoints[j][1], step) :
                                 j \in 1..Len(cached_datapoints)})
           cons == [j \in 1..Len(keys) |->
                      Consolidate(func, GroupOf(cached_datapoints, keys[j], step))]
           consolidated == [j \in 1..Len(keys) |-> <<keys[j], cons[j].v>>]
       IN  IF \E j \in 1..Len(keys) : cons[j].kind = "raise"
           THEN InvalidFunction
           ELSE Ok(ApplyAll(values, consolidated, Len(consolidated), start, step))
  ELSE Ok(ApplyAll(values, cached_datapoints, Len(cached_datapoints), start, step))

----------------------------------------------------------------------------
(* merge_with_cache and consolidate on inputs drawn from bounded sets *)

\* The steps of the archive series, and the timestamps of cached datapoints:
\* before, inside and past the windows below.
CacheSteps == {2, 3}
Timestamps == (-1)..3

\* An archive series of n slots: slot 2 is missing, the others hold numbers
\* that no cached datapoint holds.
ArchiveValues(n) == [i \in 1..n |-> IF i = 2 THEN None ELSE Num(100 + i)]

\* Lists of at most n cached datapoints (timestamp, value); the j-th datapoint
\* holds None or the number j.
PointLists(n) ==
  UNION {{[j \in 1..m |-> <<ts[j], IF present[j] THEN Num(j) ELSE None>>] :
            ts \in [1..m -> Timestamps], present \in [1..m -> BOOLEAN]} :
         m \in 0..n}

\* func: None, the four recognized names, and whisper's 'last', which
\* consolidate does not recognize.
Funcs == {"None", "sum", "average", "max", "min", "last"}

OthersUnusedByCache ==
  /\ pc = Unused /\ nodes = Unused /\ fetches = Unused /\ widx = Unused
  /\ returned = Unused
  /\ results = Unused /\ outcome = Unused /\ events = Unused
  /\ mergeCalls = Unused
  /\ inputs = Unused /\ k = Unused /\ acc = Unused

InitCache ==
  /\ mwc_args \in {a \in [cached_datapoints : PointLists(MaxPoints),
                         start : 0..3,
                         step : CacheSteps,
                         values : {ArchiveValues(n) : n \in 1..MaxLen},
                         func : Funcs] :
                     a.start \in {0, 1, a.step}}
  /\ mwc_ret = Pending
  /\ cons_args = Unused /\ cons_ret = Unused
  /\ reader_args = Unused /\ reader_ret = Unused
  /\ OthersUnusedByCache

\* A call of merge_with_cache.
MergeWithCacheCall ==
  /\ mwc_ret = Pending
  /\ mwc_ret' = MergeWithCache(mwc_args.cached_datapoints, mwc_args.start,
                               mwc_args.step, mwc_args.values, mwc_args.func)
  /\ UNCHANGED <<mwc_args, consVars, readerVars, multiVars, mergeVars>>

NextCache == MergeWithCacheCall

SpecCache == InitCache /\ [][NextCache]_vars

\* Lists of at most n values, each None or one of three numbers.
ValueLists(n) == UNION {[1..m -> {None, Num(1), Num(2), Num(4)}] : m \in 0..n}

InitCons ==
  /\ cons_args \in [func : (Funcs \ {"None"}) \cup {"bogus"},
                    values : ValueLists(MaxVals)]
  /\ cons_ret = Pending
  /\ mwc_args = Unused /\ mwc_ret = Unused
  /\ reader_args = Unused /\ reader_ret = Unused
  /\ OthersUnusedByCache

\* A call of consolidate.
ConsolidateCall ==
  /\ cons_ret = Pending
  /\ cons_ret' = Consolidate(cons_args.func, cons_args.values)
  /\ UNCHANGED <<cons_args, cacheVars, readerVars, multiVars, mergeVars>>

NextCons == ConsolidateCall

SpecCons == InitCons /\ [][NextCons]_vars

----------------------------------------------------------------------------
(* CeresReader.fetch and WhisperReader.fetch *)

\* What the archive read returns: a window aligned to the step and its values.
Archives ==
  {Data(<<m * step, m * step + n * step, step>>, ArchiveValues(n)) :
     step \in CacheSteps, m \in {0, 1}, n \in 1..MaxLen}

\* What CarbonLink.query does: it raises, or returns cached datapoints (the
\* items of a dict are such a list).
Queries ==
  {Raised("CarbonLinkError")} \cup
  {[kind |-> "points", points |-> l] : l \in PointLists(MaxQueryPoints)}

\* whisper's aggregation methods.
AggregationMethods == {"sum", "average", "max", "min", "last"}

\* "try: cached_datapoints = CarbonLink.query(...) except: cached_datapoints = []"
CachedDatapoints(query) ==
  IF query.kind = "raise" THEN <<>> ELSE query.points

\* The time_info and the fused values, or the exception of merge_with_cache.
Fused(data, cached_datapoints, func) ==
  LET m == MergeWithCache(cached_datapoints, data.time_info[1],
                          data.time_info[3], data.values, func)
  IN  IF m.kind = "raise" THEN m ELSE Data(data.time_info, m.v)

\* CeresReader.fetch(startTime, endTime), given what the node read and what
\* the cache query did.
CeresReaderFetch(data, query) ==
  Fused(data, CachedDatapoints(query), "None")

\* A plausible bug: the cache query is not wrapped in try/except.
WhisperReaderFetchNoCatch(data, query, aggregation_method) ==
  IF data.kind = "None" THEN NoneResult
  ELSE IF query.kind = "raise" THEN query
  ELSE Fused(data, query.points, aggregation_method)

\* WhisperReader.fetch(startTime, endTime), given what whisper.fetch returned,
\* what the cache query did and the archive's aggregationMethod.
WhisperReaderFetch(data, query, aggregation_method) ==
  IF data.kind = "None" THEN NoneResult
  ELSE Fused(data, CachedDatapoints(query), aggregation_method)

InitReader ==
  /\ reader_args \in
       [reader : {"ceres"}, data : Archives, query : Queries,
        aggregation_method : {"None"}]
       \cup
       [reader : {"whisper"}, data : Archives \cup {NoneResult}, query : Queries,
        aggregation_method : AggregationMethods]
  /\ reader_ret = Pending
  /\ mwc_args = Unused /\ mwc_ret = Unused
  /\ cons_args = Unused /\ cons_ret = Unused
  /\ OthersUnusedByCache

CeresFetch ==
  /\ reader_ret = Pending
  /\ reader_args.reader = "ceres"
  /\ reader_ret' = CeresReaderFetch(reader_args.data, reader_args.query)
  /\ UNCHANGED <<reader_args, cacheVars, consVars, multiVars, mergeVars>>

WhisperFetch ==
  /\ reader_ret = Pending
  /\ reader_args.reader = "whisper"
  /\ reader_ret' = WhisperReaderFetch(reader_args.data, reader_args.query,
                                      reader_args.aggregation_method)
  /\ UNCHANGED <<reader_args, cacheVars, consVars, multiVars, mergeVars>>

NextReader == CeresFetch \/ WhisperFetch

SpecReader == InitReader /\ [][NextReader]_vars

----------------------------------------------------------------------------
(* What the merge claims say, stated without the code's index expressions *)

\* The value of series r at timestamp t: the value at index
\* floor((t - start) / step) when that index lies within 0..len-1, else None.
ValueAt(r, t) ==
  LET i == FloorDiv(t - r.time_info[1], r.time_info[3])
  IN  IF i >= 0 /\ i < Len(r.values) THEN r.values[i + 1] ELSE None

\* The merge of two results as specified: finer value if present, else the
\* coarser value, else None, over the window (min start, max end, finer step).
MergeAsSpecified(r1, r2) ==
  LET finer == IF r1.time_info[3] > r2.time_info[3] THEN r2 ELSE r1
      coarser == IF r1.time_info[3] > r2.time_info[3] THEN r1 ELSE r2
      step == finer.time_info[3]
      start == Min2(r1.time_info[1], r2.time_info[1])
      end == Max2(r1.time_info[2], r2.time_info[2])
      n == SlotCount(start, end, step)
      at(t) == IF ~IsNone(ValueAt(finer, t)) THEN ValueAt(finer, t)
               ELSE ValueAt(coarser, t)
  IN  Data(<<start, end, step>>, [j \in 1..n |-> at(start + (j - 1) * step)])

\* C2: merge of two results never raises, its window is (min start, max end,
\* finer step), it has one value per slot, and each slot holds the finer
\* series' value at its in-range index if present, else the coarser series'
\* value at its in-range index, else missing; a slot earlier than a series'
\* start takes nothing from that series.
C2_MergeAsSpecified ==
  k = 2 => acc = MergeAsSpecified(inputs[1], inputs[2])

PairwiseDifferentSteps(rs) ==
  \A i, j \in 1..Len(rs) : i # j => rs[i].time_info[3] # rs[j].time_info[3]

\* The value of the finest-step source that has a present value at t, None
\* when no source has one.
FinestPresent(rs, t) ==
  LET cand == {i \in 1..Len(rs) : ~IsNone(ValueAt(rs[i], t))}
  IN  IF cand = {} THEN None
      ELSE ValueAt(rs[CHOOSE i \in cand :
                        \A j \in cand : rs[i].time_info[3] <= rs[j].time_info[3]], t)

\* C3: results with pairwise different steps, folded left by merge in any
\* order: every output slot holds the value of the finest-step source that
\* has a present value there.
C3_FinestSourceWins ==
  (k = Len(inputs) /\ PairwiseDifferentSteps(inputs)) =>
    /\ acc.kind = "data"
    /\ \A j \in 1..Len(acc.values) :
         acc.values[j] =
           FinestPresent(inputs, acc.time_info[1] + (j - 1) * acc.time_info[3])

----------------------------------------------------------------------------
(* What the MultiReader claims say, stated over what the nodes did *)

\* What the wait on node i's handle did, from the log of calls.
WaitRet(i) ==
  LET S == {j \in 1..Len(events) : events[j].op = "wait" /\ events[j].node = i}
  IN  IF S = {} THEN [kind |-> "unawaited"] ELSE events[CHOOSE j \in S : TRUE].ret

IsHandle(i) == fetches[i].kind = "FetchInProgress"

\* The data of the nodes in node order: of the handles whose wait returned
\* data and, when direct is TRUE, of the nodes that returned data directly.
RECURSIVE NodeDataFrom(_, _)
NodeDataFrom(i, direct) ==
  IF i > Len(fetches) THEN <<>>
  ELSE (IF IsHandle(i) /\ WaitRet(i).kind = "data" THEN <<WaitRet(i)>>
        ELSE IF direct /\ fetches[i].kind = "data" THEN <<fetches[i]>>
        ELSE <<>>) \o NodeDataFrom(i + 1, direct)

\* C1: a node whose fetch returned data directly contributes to the merged
\* result exactly like a handle whose wait returned data; with at least one
\* such node, waiting does not fail with the all-sub-fetches-failed error.
C1_DirectDataContributes ==
  (pc = "done" /\ \E i \in 1..Len(fetches) : fetches[i].kind = "data") =>
    /\ outcome # AllFailed
    /\ outcome = Reduce(NodeDataFrom(1, TRUE)).value

\* Source i failed in its await or returned no data.
FailedOrNoData(i) ==
  \/ fetches[i].kind = "None"
  \/ IsHandle(i) /\ WaitRet(i).kind \in {"raise", "None"}

\* C4: when every source fails in its await or returns None (an empty node
\* list included), waiting fails with the all-sources-failed error and merge
\* is never applied.
C4_AllFailedRaises ==
  (pc = "done" /\ \A i \in 1..Len(fetches) : FailedOrNoData(i)) =>
    /\ outcome = AllFailed
    /\ mergeCalls = 0

\* C4's case: two or more sources, one raised in its await, one returned None.
C4_Witness ==
  /\ pc = "done"
  /\ nodes >= 2
  /\ \A i \in 1..Len(fetches) : FailedOrNoData(i)
  /\ \E i \in 1..Len(fetches) : IsHandle(i) /\ WaitRet(i).kind = "raise"
  /\ \E i \in 1..Len(fetches) : IsHandle(i) /\ WaitRet(i).kind = "None"
  /\ outcome = AllFailed

\* C5: whichever handles raise, every handle is awaited, and if one of them
\* yields data, waiting raises nothing and returns the left fold of merge over
\* the data of the successful handles in node order.
C5_PartialFailureTolerated ==
  pc = "done" =>
    /\ \A i \in 1..Len(fetches) : IsHandle(i) => WaitRet(i).kind # "unawaited"
    /\ (\E i \in 1..Len(fetches) : IsHandle(i) /\ WaitRet(i).kind = "data") =>
         /\ outcome.kind = "data"
         /\ outcome = Reduce(NodeDataFrom(1, FALSE)).value

\* The positions in the log of the fetch calls made before position j.
FetchedBefore(j) ==
  {events[m].node : m \in {m \in 1..(j - 1) : events[m].op = "fetch"}}

\* C6: fetch has been invoked on every node before any sub-fetch handle is
\* awaited, no handle is awaited before the caller invokes waitForResults, and
\* MultiReader.fetch returns a FetchInProgress, never data.
C6_FanOutBeforeAwait ==
  /\ \A j \in 1..Len(events) :
       events[j].op = "wait" =>
         /\ FetchedBefore(j) = 1..nodes
         /\ \E m \in 1..(j - 1) : events[m].op = "waitForResults"
  /\ returned.kind \in {"pending", "FetchInProgress", "raise"}
  /\ pc \in {"returned", "merge_results", "done"} => returned = FetchInProgress

\* C6's case: a fetch over two or more nodes, completed, with two handles
\* awaited.
C6_Witness ==
  /\ pc = "done"
  /\ nodes >= 2
  /\ Cardinality({j \in 1..Len(events) : events[j].op = "wait"}) >= 2

----------------------------------------------------------------------------
(* What the cache claims say, stated over the arguments and the result *)

\* The slot of the series a timestamp falls in: floor((timestamp - start) / step).
SlotOf(timestamp, start, step) == FloorDiv(timestamp - start, step)

\* The positions of the cached datapoints that fall in slot i (zero-based).
PointsInSlot(a, i) ==
  {j \in 1..Len(a.cached_datapoints) :
     SlotOf(a.cached_datapoints[j][1], a.start, a.step) = i}

SetMax(S) == CHOOSE x \in S : \A y \in S : y <= x

\* C7: when the cache query raises, CeresReader.fetch and WhisperReader.fetch
\* do not raise and return the archive's window with exactly the archive's
\* values, as a fetch whose cache query returned no points does.
C7_CacheFailureAbsorbed ==
  (reader_ret # Pending /\ reader_args.query.kind = "raise"
     /\ reader_args.data.kind = "data") =>
    /\ reader_ret = Data(reader_args.data.time_info, reader_args.data.values)
    /\ reader_ret =
         IF reader_args.reader = "ceres"
         THEN CeresReaderFetch(reader_args.data, [kind |-> "points", points |-> <<>>])
         ELSE WhisperReaderFetch(reader_args.data,
                                 [kind |-> "points", points |-> <<>>],
                                 reader_args.aggregation_method)

\* C7's case: a WhisperReader fetch over an archive with data, completed, whose
\* cache query raised.
C7_Witness ==
  /\ reader_ret # Pending
  /\ reader_args.reader = "whisper"
  /\ reader_args.query.kind = "raise"
  /\ reader_args.data.kind = "data"
  /\ Len(reader_args.data.values) >= 2

\* C8: direct mode never raises, keeps the length of the series, and leaves in
\* each slot the value of the last cached datapoint that falls in it, or the
\* archive value when none does; datapoints before start or past the end
\* change nothing.
C8_DirectMode ==
  (mwc_ret # Pending /\ mwc_args.func = "None") =>
    /\ mwc_ret.kind = "ok"
    /\ Len(mwc_ret.v) = Len(mwc_args.values)
    /\ \A i \in 1..Len(mwc_args.values) :
         mwc_ret.v[i] =
           IF PointsInSlot(mwc_args, i - 1) = {} THEN mwc_args.values[i]
           ELSE mwc_args.cached_datapoints[SetMax(PointsInSlot(mwc_args, i - 1))][2]

\* C8's case: a direct-mode call, completed, with a datapoint before start and
\* two datapoints with different values in one slot of the series.
C8_Witness ==
  /\ mwc_ret # Pending
  /\ mwc_args.func = "None"
  /\ \E j \in 1..Len(mwc_args.cached_datapoints) :
       mwc_args.cached_datapoints[j][1] < mwc_args.start
  /\ \E i \in 1..Len(mwc_args.values) :
       \E p, q \in PointsInSlot(mwc_args, i - 1) :
         mwc_args.cached_datapoints[p][2] # mwc_args.cached_datapoints[q][2]

\* The values of the cached datapoints at the positions S, in iteration order.
ValuesAt(a, S) ==
  LET sel == SelectSeq([j \in 1..Len(a.cached_datapoints) |-> j],
                       LAMBDA j : j \in S)
  IN  [n \in 1..Len(sel) |-> a.cached_datapoints[sel[n]][2]]

\* Each slot in which a cached datapoint falls holds the consolidation of
\* exactly the datapoints falling in it; every other slot keeps its value.
ConsolidatedBySlot ==
  /\ mwc_ret.kind = "ok"
  /\ Len(mwc_ret.v) = Len(mwc_args.values)
  /\ \A i \in 1..Len(mwc_args.values) :
       mwc_ret.v[i] =
         IF PointsInSlot(mwc_args, i - 1) = {} THEN mwc_args.values[i]
         ELSE Consolidate(mwc_args.func,
                          ValuesAt(mwc_args, PointsInSlot(mwc_args, i - 1))).v

\* C9 as stated: in consolidated mode, for every start, each slot holds the
\* consolidation of exactly the cached datapoints with
\* floor((timestamp - start) / step) equal to the slot.
C9_ConsolidatedAnyStart ==
  (mwc_ret # Pending /\ mwc_args.func \in Recognized) => ConsolidatedBySlot

\* C9 amended: the same, for every start that is a multiple of step.
C9_ConsolidatedAlignedStart ==
  (mwc_ret # Pending /\ mwc_args.func \in Recognized
     /\ mwc_args.start % mwc_args.step = 0) => ConsolidatedBySlot

\* C9's case: a consolidated call with an aligned start other than 0,
\* completed, in which two datapoints with different timestamps and values
\* fall in one slot of the series.
C9_Witness ==
  /\ mwc_ret # Pending
  /\ mwc_args.func = "average"
  /\ mwc_args.start = mwc_args.step
  /\ \E i \in 1..Len(mwc_args.values) :
       \E p, q \in PointsInSlot(mwc_args, i - 1) :
         /\ mwc_args.cached_datapoints[p][1] # mwc_args.cached_datapoints[q][1]
         /\ ~IsNone(mwc_args.cached_datapoints[p][2])
         /\ ~IsNone(mwc_args.cached_datapoints[q][2])
         /\ mwc_args.cached_datapoints[p][2] # mwc_args.cached_datapoints[q][2]

\* C10: consolidate fails with the invalid-consolidation-function error for
\* every unrecognized name and every list of values, the empty list and a list
\* of only missing values included; for a recognized name it returns missing
\* exactly when no value is left after the missing ones are discarded.
C10_UnknownFunctionFails ==
  cons_ret # Pending =>
    /\ cons_args.func \notin Recognized => cons_ret = InvalidFunction
    /\ cons_args.func \in Recognized =>
         /\ cons_ret.kind = "ok"
         /\ IsNone(cons_ret.v) <=>
              \A j \in 1..Len(cons_args.values) : IsNone(cons_args.values[j])

\* C10, its consequence: merge_with_cache called with an unrecognized func
\* fails with that error for any list of cached datapoints.
C10_MergeWithCacheFails ==
  (mwc_ret # Pending /\ mwc_args.func \notin Recognized \cup {"None"}) =>
    mwc_ret = InvalidFunction

====
